---- MODULE Spec2Model ----
(***************************************************************************)
(* Session player of the guided-meditation application (SessionPlayer):    *)
(* the loading sequence of initializeSession, the playback controls        *)
(* startSession / pauseSession / resumeSession / stopSession, the 1-second *)
(* interval of startTimer, the lead-in timeout and the onended chain of    *)
(* the three narration elements.                                           *)
(*                                                                         *)
(* Time is counted in whole seconds.  Advance lets one second of wall      *)
(* clock pass; a callback that has become due (interval tick, lead-in      *)
(* timeout, ended event, settled media play() promise, phase effect) runs  *)
(* as a step of its own, in any order with the other due callbacks and     *)
(* with the user's clicks, before the next second passes.  Only             *)
(* await generateScript(...) in startSession, a network request, may stay  *)
(* suspended while seconds pass.                                           *)
(*                                                                         *)
(* A click is a discrete event: its setPhase is rendered and the effect    *)
(* that copies phase into phaseRef has run when the handler returns.  A    *)
(* setPhase made from a timer callback is mirrored by a later step         *)
(* (PhaseEffect).                                                          *)
(*                                                                         *)
(* Playback runs in whole seconds; the measured narration durations are    *)
(* kept in tenths of a second.  The music element is known by whether it   *)
(* exists, whether it is playing and its volume; audioEngine.pauseAll()    *)
(* and stopAll() pause it.  Volume settings are tenths (the sliders' step), *)
(* element volumes fiftieths, so that the fade (remaining / 5) * setting   *)
(* is a whole number.                                                      *)
(*                                                                         *)
(* Spec is the player from construction with the playback controls.        *)
(* MixerSpec and DisposalSpec are the loaded session with, in addition,    *)
(* the volume sliders and the back button; DurationSpec is the measuring   *)
(* step of the load with durations that are not whole seconds; LoadingSpec *)
(* is the load with a script in which segments may be empty.               *)
(*                                                                         *)
(* Beside the player: the assessment wizard that creates the session       *)
(* (WizardSpec, with the load of the player it hands over to), the prompt  *)
(* assembler PromptTemplateManager (WordCountSpec for the word budget,     *)
(* PromptSpec and LoaderSpec for generatePrompt and loadTemplate) and the  *)
(* factory createVoiceSynthesis (FactorySpec).  In the player's             *)
(* specifications the wizard has finished and the other modules are idle.  *)
(***************************************************************************)
EXTENDS Integers, Sequences, FiniteSets, TLC

\* ---------------------------------------------------------------- bounds
MaxSegDur == 2      \* narration segments last 1..MaxSegDur seconds
MaxPauses == 2      \* pause clicks per session
MaxVolChanges == 1  \* slider changes per session

\* ------------------------------------------------------- program constants
VOICE_START_DELAY == 10
MUSIC_FADE_AFTER_VOICE == 10
SessionDuration == 1        \* session.duration, minutes (shortest wizard option)
FadeWindow == 5             \* the final seconds in which the music fades

Segs == {"intro", "main", "closing"}
SegOrder == <<"intro", "main", "closing">>
Phases == {"loading", "ready", "playing", "paused", "completed"}
NoTimeout == -1

\* Values the volume sliders (min 0, max 1, step 0.1) are moved to, in tenths.
SliderValues == {2, 10}

VARIABLES
    phase,          \* useState<SessionPhase>
    phaseRef,       \* phaseRef.current, the mirror read by timers and callbacks
    effectPending,  \* the phase effect has not yet copied phase into phaseRef
    currentTime,    \* useState(0): elapsed seconds
    totalTime,      \* useState(session.duration * 60)
    initPc,         \* position of initializeSession
    els,            \* segments whose element audioElementsRef.current holds
    measured,       \* audio.duration of each narration element, tenths of a second
    dur,            \* duration of each narration element, whole seconds
    pos,            \* currentTime of each narration element
    playing,        \* ~paused of each narration element
    endedPending,   \* narration elements whose ended event is queued
    hasMusic,       \* audioEngine.getMusicAudio() is not null
    musicPlaying,   \* ~paused of the music element
    timerActive,    \* the interval held in timerRef.current is live
    intervals,      \* the intervals set by setInterval and not cleared
    tickDue,        \* the interval callback is due
    timerSeen,      \* Math.floor(currentTime / 60) in the closure that created the interval
    leadIn,         \* seconds until the lead-in timeout fires, NoTimeout if none
    startCont,      \* where startSession is suspended
    resumeConts,    \* suspended resumeSession calls
    tts,            \* fallback speech timeout of startSession
    userStats,      \* minutes accumulated by updateUserStats
    statsCalls,     \* number of updateUserStats calls
    sessionClock,   \* seconds spent in playing since the start (capped at the lead-in)
    pauses,         \* pause clicks so far
    volumes,        \* useState(session.layers): music and voice setting, tenths
    musicVol,       \* volume of the music element, fiftieths
    voiceVol,       \* volume of each narration element, fiftieths
    timerVol,       \* volumes.music_volume in the closure that created the interval
    startVol,       \* volumes of the render whose startSession runs
    volChanges,     \* slider changes so far
    disposed,       \* the component was unmounted and cleanup() has run
    released,       \* segments whose object URL cleanup() revoked
    wordCalls,      \* the last calls of calculateMaxWordCount: argument and result
    factoryCalls,   \* the last calls of createVoiceSynthesis: environment and result
    templateFile,   \* MediSync_MasterPrompt_250914.md: readable or not, and its text
    templateCache,  \* PromptTemplateManager.templateCache
    variables,      \* the PromptVariables handed to generatePrompt
    prompt,         \* what generatePrompt returned
    reapplied,      \* the substitution applied to that result once more
    validation,     \* PromptTemplateManager: the result of validateTemplate
    script,         \* const script of initializeSession: the text of each segment
    sent,           \* the text of each synthesize request of initializeSession
    step,           \* AssessmentFlow: useState(1), the wizard's step
    showAssessment, \* Dashboard: the wizard is mounted
    currentSession, \* Dashboard: a session configuration was handed over
    attempts,       \* AssessmentFlow: the calls of generateScript, each with its outcome
    reviewTimers,   \* AssessmentFlow: pending setTimeout(() => setStep(9), 1000)
    alerts,         \* the messages shown by alert(...)
    generatedScript, \* AssessmentFlow: useState('')
    selectedGoal,   \* AssessmentFlow: a goal was selected (selectedGoal is not '')
    assessment      \* AssessmentFlow: the survey questions that have an answer

vars == <<phase, phaseRef, effectPending, currentTime, totalTime, initPc, els,
          measured, dur, pos, playing, endedPending, hasMusic, musicPlaying, timerActive, intervals,
          tickDue, timerSeen, leadIn, startCont, resumeConts, tts, userStats,
          statsCalls, sessionClock, pauses, volumes, musicVol, voiceVol, timerVol,
          startVol, volChanges, disposed, released, wordCalls,
          factoryCalls, templateFile, templateCache, variables, prompt, reapplied,
          validation,
          script, sent, step, showAssessment, currentSession, attempts,
          reviewTimers, alerts, generatedScript, selectedGoal, assessment>>

loadVars == <<totalTime, initPc, els, measured, dur, hasMusic>>
mixVars == <<volumes, musicVol, voiceVol, timerVol, startVol, volChanges>>
lifeVars == <<disposed, released>>
scriptVars == <<script, sent>>

\* State of the modules beside the player: the player leaves it alone.
promptVars == <<templateFile, templateCache, variables, prompt, reapplied, validation>>
answerVars == <<selectedGoal, assessment>>
wizardVars == <<step, showAssessment, currentSession, attempts, reviewTimers, alerts,
               generatedScript, answerVars>>
sideVars == <<wordCalls, factoryCalls, promptVars, wizardVars>>

\* The script before it is received, and the synthesis texts before they are sent.
NoScript == [s \in Segs |-> ""]
NotSent == [s \in Segs |-> "not sent"]

\* A text that may be missing: null, a raised error or not yet there (is), or
\* the text.
NoText == [is |-> "none", text |-> <<>>]
Raised == [is |-> "raised", text |-> <<>>]
Text(q) == [is |-> "text", text |-> q]

NoCalls ==
    /\ wordCalls = <<>>
    /\ factoryCalls = <<>>

\* templateCache: string | null = null; generatePrompt not called.
\* validateTemplate has not been called.
NotValidated == [is |-> "none", isValid |-> FALSE, error |-> ""]

NoPrompt ==
    /\ templateFile = [readable |-> FALSE, text |-> <<>>]
    /\ templateCache = NoText
    /\ variables = [Wisdom_Source_Name |-> <<>>, Wisdom_Snippet |-> <<>>,
                    User_Primer |-> <<>>, User_Goal |-> <<>>,
                    User_Feelings_List |-> <<>>, Max_Word_Count |-> 0]
    /\ prompt = NoText
    /\ reapplied = NoText
    /\ validation = NotValidated

\* The wizard after Create Session: one generation succeeded, the review and
\* the voice step were passed, onComplete handed the configuration over and the
\* Dashboard replaced the wizard by the player.
WizardDone ==
    /\ step = 10
    /\ showAssessment = FALSE
    /\ currentSession = TRUE
    /\ attempts = <<[pc |-> "done", outcome |-> "ok"]>>
    /\ reviewTimers = 0
    /\ alerts = <<>>
    /\ generatedScript = "script text"
    /\ selectedGoal = TRUE
    /\ assessment = {"currentState", "experience", "environment"}

SideInit == NoCalls /\ NoPrompt /\ WizardDone

\* session.layers as the wizard creates it: music_volume 0.4, voice_volume 0.8.
SessionLayers == [music |-> 4, voice |-> 8]

\* A setting in tenths as an element volume in fiftieths.
ElementVolume(v) == 5 * v

\* The volume of a new Audio element (1.0).
DefaultVolume == ElementVolume(10)

Min(a, b) == IF a < b THEN a ELSE b

\* Math.floor(currentTime / 60)
Minutes(t) == t \div 60

PlayerAt(pc) ==
    /\ phase = "loading"
    /\ phaseRef = "loading"
    /\ effectPending = FALSE
    /\ currentTime = 0
    /\ totalTime = SessionDuration * 60
    /\ initPc = pc
    /\ els = {}
    /\ measured = [s \in Segs |-> 0]
    /\ dur = [s \in Segs |-> 0]
    /\ pos = [s \in Segs |-> 0]
    /\ playing = [s \in Segs |-> FALSE]
    /\ endedPending = {}
    /\ hasMusic = FALSE
    /\ musicPlaying = FALSE
    /\ timerActive = FALSE
    /\ intervals = 0
    /\ tickDue = FALSE
    /\ timerSeen = 0
    /\ leadIn = NoTimeout
    /\ startCont = "none"
    /\ resumeConts = <<>>
    /\ tts = "none"
    /\ userStats = 0
    /\ statsCalls = 0
    /\ sessionClock = 0
    /\ pauses = 0
    /\ volumes = SessionLayers
    /\ musicVol = ElementVolume(SessionLayers.music)
    /\ voiceVol = [s \in Segs |-> DefaultVolume]
    /\ timerVol = SessionLayers.music
    /\ startVol = SessionLayers
    /\ volChanges = 0
    /\ disposed = FALSE
    /\ released = {}
    /\ script = NoScript
    /\ sent = NotSent

\* The player mounted: its effect has called initializeSession.
PlayerConstructed == PlayerAt("script")

Init == PlayerConstructed /\ SideInit

\* ------------------------------------------------------- initializeSession
playVars == <<phase, phaseRef, effectPending, currentTime, pos, playing,
              endedPending, musicPlaying, timerActive, intervals, tickDue, timerSeen, leadIn,
              startCont, resumeConts, tts, userStats, statsCalls, sessionClock,
              pauses, volumes, musicVol, voiceVol, timerVol, startVol, volChanges,
              disposed, released>>

playerVars == <<loadVars, playVars, scriptVars>>

\* await generateScript(...): a script, or a throw caught by the outer catch,
\* which schedules setPhase('ready') after 1000 ms.
\* The server's script has, for each segment, a text, a blank text or none
\* (missing or empty).
ServerScripts == [Segs -> {"", " ", "text"}]
FullScript == [s \in Segs |-> "text"]

\* if (!script.main_content || script.main_content.trim().length === 0)
\*     script.main_content = script.intro_text || 'Take a deep breath and relax.'
Workaround(sc) ==
    IF sc["main"] \in {"", " "}
    THEN [sc EXCEPT !["main"] = IF sc["intro"] # "" THEN sc["intro"]
                                ELSE "Take a deep breath and relax."]
    ELSE sc

\* The step after await generateScript(...): the music, or the outer catch.
AfterScriptSkipsMusic(ok) == IF ok THEN "probe" ELSE "timer"

AfterScript(ok) == IF ok THEN "music" ELSE "timer"

GenerateScriptWith(S) ==
    /\ initPc = "script"
    /\ \E ok \in BOOLEAN, sc \in S :
         /\ initPc' = AfterScript(ok)
         /\ script' = IF ok THEN Workaround(sc) ELSE script
    /\ UNCHANGED <<totalTime, els, measured, dur, hasMusic, sent>>
    /\ UNCHANGED <<playVars, sideVars>>

\* The server returns a script with a text for every segment.
GenerateScriptStep == GenerateScriptWith({FullScript})

\* The server returns any script.
GenerateAnyScriptStep == GenerateScriptWith(ServerScripts)

\* await audioEngine.playMusic(...); musicAudio.pause(); loop = true.
\* A failure is caught locally and the session continues without music.
LoadMusicStep ==
    /\ initPc = "music"
    /\ \E ok \in BOOLEAN : hasMusic' = ok
    /\ initPc' = "probe"
    /\ UNCHANGED <<totalTime, els, measured, dur>>
    /\ UNCHANGED <<playVars, sideVars, scriptVars>>

\* await fetch('/api/voice/preview'): not ok, or a throw, skips the narration.
ProbeStep ==
    /\ initPc = "probe"
    /\ \E ok \in BOOLEAN : initPc' = IF ok THEN "synth" ELSE "audioctx"
    /\ UNCHANGED <<totalTime, els, measured, dur, hasMusic>>
    /\ UNCHANGED <<playVars, sideVars, scriptVars>>

\* await Promise.all of the three synthesize requests.  Unless all three are ok
\* the code throws before any element is created; otherwise the three audio
\* elements are created and stored in audioElementsRef.
KeptElementsOk(ok) == {s \in Segs : ok[s]}

KeptElements(ok) == IF \A s \in Segs : ok[s] THEN Segs ELSE {}

SynthesizeStep ==
    /\ initPc = "synth"
    /\ \E ok \in [Segs -> BOOLEAN] :
         /\ els' = KeptElements(ok)
         /\ initPc' = IF \A s \in Segs : ok[s] THEN "measure" ELSE "audioctx"
    /\ sent' = script
    /\ UNCHANGED <<totalTime, measured, dur, hasMusic, script>>
    /\ UNCHANGED <<playVars, sideVars>>

\* Math.floor and Math.ceil of a value given in tenths.
FloorTenths(x) == x \div 10

CeilTenthsRounds(x) == (x + 5) \div 10

CeilTenths(x) == (x + 9) \div 10

\* Math.ceil(VOICE_START_DELAY + totalVoiceDuration + MUSIC_FADE_AFTER_VOICE)
\* for durations dt in tenths of a second.
ActualSessionDuration(dt) ==
    CeilTenths(10 * VOICE_START_DELAY + (dt["intro"] + dt["main"] + dt["closing"])
               + 10 * MUSIC_FADE_AFTER_VOICE)

\* await Promise.all of the three onloadedmetadata promises, the durations
\* drawn from D.  Each element reports its metadata (ok) or an error event; an
\* element that reports an error never fires loadedmetadata, its promise never
\* resolves and initializeSession stays suspended.  Playback runs in whole
\* seconds.
MeasureWith(D) ==
    /\ initPc = "measure"
    /\ \E dt \in D, ok \in [Segs -> BOOLEAN] :
         IF \A s \in Segs : ok[s]
         THEN /\ measured' = dt
              /\ dur' = [s \in Segs |-> FloorTenths(dt[s])]
              /\ totalTime' = ActualSessionDuration(dt)
              /\ initPc' = "audioctx"
         ELSE /\ initPc' = "hung"
              /\ UNCHANGED <<measured, dur, totalTime>>
    /\ UNCHANGED <<els, hasMusic>>
    /\ UNCHANGED <<playVars, sideVars, scriptVars>>

\* The three segments are given the same length of n seconds.
MeasureStep == MeasureWith({[s \in Segs |-> 10 * n] : n \in 1..MaxSegDur})

\* The three segments are given lengths that need not be whole seconds.
MeasuredTenths == {5, 17, 120, 150, 900}

MeasureFractionalStep == MeasureWith([Segs -> MeasuredTenths])

\* await audioEngine.resumeAudioContext(); then setTimeout(setPhase('ready'), 500),
\* or on a throw the outer catch with its 1000 ms timeout.  initializeSession
\* returns: its local script and the request texts are gone.
ResumeAudioContextStep ==
    /\ initPc = "audioctx"
    /\ initPc' = "timer"
    /\ script' = NoScript
    /\ sent' = NotSent
    /\ UNCHANGED <<totalTime, els, measured, dur, hasMusic>>
    /\ UNCHANGED <<playVars, sideVars>>

\* setTimeout(() => setPhase('ready'), ...): a state update outside a click, so
\* the effect that mirrors it into phaseRef runs later.
ReadyTimeout ==
    /\ initPc = "timer"
    /\ initPc' = "done"
    /\ phase' = "ready"
    /\ effectPending' = TRUE
    /\ UNCHANGED <<totalTime, els, measured, dur, hasMusic>>
    /\ UNCHANGED <<phaseRef, currentTime, pos, playing, endedPending, musicPlaying,
                   timerActive, intervals, tickDue, timerSeen, leadIn, startCont, resumeConts,
                   tts, userStats, statsCalls, sessionClock, pauses>>
    /\ UNCHANGED <<mixVars, lifeVars, sideVars, scriptVars>>

\* useEffect(() => { phaseRef.current = phase }, [phase])
PhaseEffect ==
    /\ effectPending
    /\ phaseRef' = phase
    /\ effectPending' = FALSE
    /\ UNCHANGED <<phase, currentTime, totalTime, initPc, els, measured, dur, pos,
                   playing, endedPending, hasMusic, musicPlaying, timerActive, intervals, tickDue,
                   timerSeen, leadIn, startCont, resumeConts, tts, userStats,
                   statsCalls, sessionClock, pauses>>
    /\ UNCHANGED <<mixVars, lifeVars, sideVars, scriptVars>>

\* ------------------------------------------------------------ audio elements
\* HTMLMediaElement.play(): an element that has ended restarts from 0.
PlayPosRestart(p, s) == [p EXCEPT ![s] = 0]

PlayPos(p, s) == [p EXCEPT ![s] = IF p[s] = dur[s] THEN 0 ELSE p[s]]
PlayOn(pl, s) == [pl EXCEPT ![s] = TRUE]

AllPaused == [s \in Segs |-> FALSE]
AllZero == [s \in Segs |-> 0]

\* Object.values(audioElementsRef.current).find(audio => audio && audio.paused &&
\*   audio.currentTime > 0 && audio.currentTime < audio.duration)
IsPausedAudio(s) == s \in els /\ ~playing[s] /\ pos[s] > 0 /\ pos[s] < dur[s]
HasPausedAudio == \E i \in 1..3 : IsPausedAudio(SegOrder[i])
PausedAudio ==
    SegOrder[CHOOSE i \in 1..3 :
        IsPausedAudio(SegOrder[i]) /\ \A j \in 1..(i - 1) : ~IsPausedAudio(SegOrder[j])]

\* ---------------------------------------------------------------- startTimer
\* clearInterval(timerRef.current); timerRef.current = setInterval(..., 1000).
\* The new interval's callback closes over the render of the caller: seen is
\* Math.floor(currentTime / 60) of that render, the only use its stopSession
\* makes of currentTime, and mv is that render's volumes.music_volume.
Cleared(n, live) == IF live THEN n - 1 ELSE n

StartTimerOff(seen, mv) ==
    /\ timerActive' = FALSE
    /\ intervals' = Cleared(intervals, timerActive)
    /\ tickDue' = FALSE
    /\ timerSeen' = seen
    /\ timerVol' = mv

StartTimerLeaks(seen, mv) ==
    /\ timerActive' = TRUE
    /\ intervals' = intervals + 1
    /\ tickDue' = FALSE
    /\ timerSeen' = seen
    /\ timerVol' = mv

StartTimer(seen, mv) ==
    /\ timerActive' = TRUE
    /\ intervals' = Cleared(intervals, timerActive) + 1
    /\ tickDue' = FALSE
    /\ timerSeen' = seen
    /\ timerVol' = mv

\* --------------------------------------------------------------- stopSession
\* setPhase('completed'); stopAll(); every element paused and rewound; the
\* interval cleared; updateUserStats(Math.floor(currentTime / 60)) with the
\* currentTime of the render whose stopSession runs (seen is that floor).
StopSessionNoRewind(seen) ==
    /\ phase' = "completed"
    /\ musicPlaying' = FALSE
    /\ playing' = AllPaused
    /\ pos' = pos
    /\ timerActive' = FALSE
    /\ intervals' = Cleared(intervals, timerActive)
    /\ tickDue' = FALSE
    /\ userStats' = userStats + seen
    /\ statsCalls' = statsCalls + 1

StopSession(seen) ==
    /\ phase' = "completed"
    /\ musicPlaying' = FALSE
    /\ playing' = AllPaused
    /\ pos' = AllZero
    /\ timerActive' = FALSE
    /\ intervals' = Cleared(intervals, timerActive)
    /\ tickDue' = FALSE
    /\ userStats' = userStats + seen
    /\ statsCalls' = statsCalls + 1

\* -------------------------------------------------------------- startSession
\* The part of startSession after the music branch: with narration elements the
\* lead-in timeout is scheduled and the timer started; without them the function
\* suspends at await generateScript(...).  vol is the volumes of the render
\* whose startSession runs.
StartAfterMusicNeedsNarration(vol) ==
    IF "intro" \in els
    THEN /\ leadIn' = VOICE_START_DELAY
         /\ StartTimer(0, vol.music)
         /\ startCont' = "done"
    ELSE /\ startCont' = "done"
         /\ UNCHANGED <<leadIn, timerActive, intervals, tickDue, timerSeen, timerVol>>

StartAfterMusic(vol) ==
    IF "intro" \in els
    THEN /\ leadIn' = VOICE_START_DELAY
         /\ StartTimer(0, vol.music)
         /\ startCont' = "done"
    ELSE /\ startCont' = "script"
         /\ UNCHANGED <<leadIn, timerActive, intervals, tickDue, timerSeen, timerVol>>

\* Click on Start Session (rendered in ready): setPhase('playing'),
\* musicAudio.volume = volumes.music_volume, music.play(), then suspended at
\* await musicAudio.play() when there is music.
StartSession ==
    /\ ~disposed
    /\ phase = "ready"
    /\ phase' = "playing"
    /\ phaseRef' = "playing"
    /\ effectPending' = FALSE
    /\ startVol' = volumes
    /\ IF hasMusic
       THEN /\ musicPlaying' = TRUE
            /\ musicVol' = ElementVolume(volumes.music)
            /\ startCont' = "music"
            /\ UNCHANGED <<leadIn, timerActive, intervals, tickDue, timerSeen, timerVol>>
       ELSE /\ UNCHANGED <<musicPlaying, musicVol>>
            /\ StartAfterMusic(volumes)
    /\ UNCHANGED <<currentTime, pos, playing, endedPending, resumeConts, tts,
                   userStats, statsCalls, sessionClock, pauses>>
    /\ UNCHANGED <<volumes, voiceVol, volChanges, lifeVars>>
    /\ UNCHANGED <<loadVars, sideVars, scriptVars>>

\* startSession continues after await musicAudio.play() settled.
StartMusicSettled ==
    /\ startCont = "music"
    /\ StartAfterMusic(startVol)
    /\ UNCHANGED <<phase, phaseRef, effectPending, currentTime, pos, playing,
                   endedPending, musicPlaying, resumeConts, tts, userStats,
                   statsCalls, sessionClock, pauses>>
    /\ UNCHANGED <<volumes, musicVol, voiceVol, startVol, volChanges, lifeVars>>
    /\ UNCHANGED <<loadVars, sideVars, scriptVars>>

\* startSession continues after await generateScript(...): on success the
\* fallback speech is scheduled 1000 ms later; in both cases startTimer().
StartScriptSettled ==
    /\ startCont = "script"
    /\ startCont' = "done"
    /\ \E ok \in BOOLEAN : tts' = IF ok THEN "wait" ELSE "none"
    /\ StartTimer(0, startVol.music)
    /\ UNCHANGED <<phase, phaseRef, effectPending, currentTime, pos, playing,
                   endedPending, musicPlaying, leadIn, resumeConts, userStats,
                   statsCalls, sessionClock, pauses>>
    /\ UNCHANGED <<volumes, musicVol, voiceVol, startVol, volChanges, lifeVars>>
    /\ UNCHANGED <<loadVars, sideVars, scriptVars>>

\* setTimeout(() => voiceSynthesis.current.synthesizeText(...), 1000): the
\* browser speaks, or the synthesizer produces no speech.
SpeechTimeout ==
    /\ tts = "due"
    /\ \E speaks \in BOOLEAN : tts' = IF speaks THEN "speaking" ELSE "ended"
    /\ UNCHANGED <<phase, phaseRef, effectPending, currentTime, pos, playing,
                   endedPending, musicPlaying, timerActive, intervals, tickDue, timerSeen,
                   leadIn, startCont, resumeConts, userStats, statsCalls,
                   sessionClock, pauses>>
    /\ UNCHANGED <<mixVars, lifeVars>>
    /\ UNCHANGED <<loadVars, sideVars, scriptVars>>

\* utterance.onend
SpeechEnd ==
    /\ tts = "speaking"
    /\ tts' = "ended"
    /\ UNCHANGED <<phase, phaseRef, effectPending, currentTime, pos, playing,
                   endedPending, musicPlaying, timerActive, intervals, tickDue, timerSeen,
                   leadIn, startCont, resumeConts, userStats, statsCalls,
                   sessionClock, pauses>>
    /\ UNCHANGED <<mixVars, lifeVars>>
    /\ UNCHANGED <<loadVars, sideVars, scriptVars>>

\* The lead-in timeout: starts the intro when phaseRef reads playing, at the
\* voice volume of the render whose startSession scheduled it.
LeadInStartsUnchecked == "intro" \in els

LeadInStarts == "intro" \in els /\ phaseRef = "playing"

LeadInTimeout ==
    /\ leadIn = 0
    /\ leadIn' = NoTimeout
    /\ IF LeadInStarts
       THEN /\ pos' = PlayPos(pos, "intro")
            /\ playing' = PlayOn(playing, "intro")
            /\ voiceVol' = [voiceVol EXCEPT !["intro"] = ElementVolume(startVol.voice)]
       ELSE UNCHANGED <<pos, playing, voiceVol>>
    /\ UNCHANGED <<phase, phaseRef, effectPending, currentTime, endedPending,
                   musicPlaying, timerActive, intervals, tickDue, timerSeen, startCont,
                   resumeConts, tts, userStats, statsCalls, sessionClock, pauses>>
    /\ UNCHANGED <<volumes, musicVol, timerVol, startVol, volChanges, lifeVars>>
    /\ UNCHANGED <<loadVars, sideVars, scriptVars>>

\* -------------------------------------------------------------- pauseSession
\* Click on Pause (rendered in playing).
PauseSession ==
    /\ ~disposed
    /\ phase = "playing"
    /\ pauses < MaxPauses
    /\ pauses' = pauses + 1
    /\ phase' = "paused"
    /\ phaseRef' = "paused"
    /\ effectPending' = FALSE
    /\ musicPlaying' = FALSE
    /\ playing' = AllPaused
    /\ timerActive' = FALSE
    /\ intervals' = Cleared(intervals, timerActive)
    /\ tickDue' = FALSE
    /\ UNCHANGED <<currentTime, pos, endedPending, timerSeen, leadIn, startCont,
                   resumeConts, tts, userStats, statsCalls, sessionClock>>
    /\ UNCHANGED <<mixVars, lifeVars>>
    /\ UNCHANGED <<loadVars, sideVars, scriptVars>>

\* ------------------------------------------------------------- resumeSession
RemoveAt(q, i) == [j \in 1..(Len(q) - 1) |-> IF j < i THEN q[j] ELSE q[j + 1]]

\* The part of resumeSession after the music branch; seen and vol belong to the
\* render whose resumeSession runs, rest holds the other suspended calls.
ResumeAfterMusic(seen, vol, rest) ==
    IF HasPausedAudio
    THEN /\ pos' = PlayPos(pos, PausedAudio)
         /\ playing' = PlayOn(playing, PausedAudio)
         /\ voiceVol' = [voiceVol EXCEPT ![PausedAudio] = ElementVolume(vol.voice)]
         /\ resumeConts' = Append(rest, [at |-> "voice", seen |-> seen, vol |-> vol])
         /\ UNCHANGED <<timerActive, intervals, tickDue, timerSeen, timerVol>>
    ELSE /\ IF "intro" \in els /\ pos["intro"] = 0
            THEN /\ pos' = PlayPos(pos, "intro")
                 /\ playing' = PlayOn(playing, "intro")
                 /\ voiceVol' = [voiceVol EXCEPT !["intro"] = ElementVolume(vol.voice)]
            ELSE UNCHANGED <<pos, playing, voiceVol>>
         /\ resumeConts' = rest
         /\ StartTimer(seen, vol.music)

\* Click on Resume (rendered in paused).
ResumeSession ==
    /\ ~disposed
    /\ phase = "paused"
    /\ phase' = "playing"
    /\ phaseRef' = "playing"
    /\ effectPending' = FALSE
    /\ IF hasMusic
       THEN /\ musicPlaying' = TRUE
            /\ musicVol' = ElementVolume(volumes.music)
            /\ resumeConts' = Append(resumeConts,
                   [at |-> "music", seen |-> Minutes(currentTime), vol |-> volumes])
            /\ UNCHANGED <<pos, playing, voiceVol, timerActive, intervals, tickDue, timerSeen,
                           timerVol>>
       ELSE /\ UNCHANGED <<musicPlaying, musicVol>>
            /\ ResumeAfterMusic(Minutes(currentTime), volumes, resumeConts)
    /\ UNCHANGED <<currentTime, endedPending, leadIn, startCont, tts, userStats,
                   statsCalls, sessionClock, pauses>>
    /\ UNCHANGED <<volumes, startVol, volChanges, lifeVars>>
    /\ UNCHANGED <<loadVars, sideVars, scriptVars>>

\* resumeSession continues after one of its awaits settled: after
\* await musicAudio.play() with the search for the paused element, after
\* await pausedAudio.play() with startTimer().
ResumeSettled ==
    /\ \E i \in 1..Len(resumeConts) :
         LET c == resumeConts[i]
             rest == RemoveAt(resumeConts, i)
         IN IF c.at = "music"
            THEN ResumeAfterMusic(c.seen, c.vol, rest)
            ELSE /\ resumeConts' = rest
                 /\ StartTimer(c.seen, c.vol.music)
                 /\ UNCHANGED <<pos, playing, voiceVol>>
    /\ UNCHANGED <<phase, phaseRef, effectPending, currentTime, endedPending,
                   musicPlaying, leadIn, startCont, tts, userStats, statsCalls,
                   sessionClock, pauses>>
    /\ UNCHANGED <<volumes, musicVol, startVol, volChanges, lifeVars>>
    /\ UNCHANGED <<loadVars, sideVars, scriptVars>>

\* ------------------------------------------------------- Stop Session button
\* The button is rendered only while the phase is paused.
StopVisibleInReady == phase \in {"ready", "paused"}

StopVisible == phase = "paused"

StopClick ==
    /\ ~disposed
    /\ StopVisible
    /\ StopSession(Minutes(currentTime))
    /\ phaseRef' = "completed"
    /\ effectPending' = FALSE
    /\ UNCHANGED <<currentTime, endedPending, timerSeen, leadIn, startCont,
                   resumeConts, tts, sessionClock, pauses>>
    /\ UNCHANGED <<mixVars, lifeVars>>
    /\ UNCHANGED <<loadVars, sideVars, scriptVars>>

\* ------------------------------------------------------- the interval callback
\* setCurrentTime(prev => ...): newTime = prev + 1; at newTime >= totalTime the
\* closure's stopSession runs and the state becomes totalTime.
NewTimeSkip(prev) == prev + 2

NewTime(prev) == prev + 1

TickCompletesEarly(newTime) == newTime >= totalTime - MUSIC_FADE_AFTER_VOICE

TickCompletes(newTime) == newTime >= totalTime

\* remainingTime <= 5 && remainingTime > 0
FadeApplies(remaining) == remaining <= FadeWindow /\ remaining > 0

\* (remainingTime / 5) * volumes.music_volume, in fiftieths for a setting mv in
\* tenths: (remaining / 5) * (mv / 10) = (remaining * mv) / 50.
FadeVolume(remaining, mv) == remaining * mv

\* The callback of an interval created after the component was unmounted still
\* runs every second; React drops its state update.
Tick ==
    /\ timerActive
    /\ tickDue
    /\ IF disposed
       THEN /\ tickDue' = FALSE
            /\ UNCHANGED <<phase, effectPending, currentTime, pos, playing,
                           musicPlaying, musicVol, timerActive, intervals, timerSeen,
                           userStats, statsCalls>>
       ELSE LET newTime == NewTime(currentTime)
                remaining == totalTime - newTime
            IN /\ musicVol' = IF FadeApplies(remaining) /\ hasMusic
                              THEN FadeVolume(remaining, timerVol)
                              ELSE musicVol
               /\ IF TickCompletes(newTime)
                  THEN /\ StopSession(timerSeen)
                       /\ currentTime' = totalTime
                       /\ effectPending' = (effectPending \/ phase # "completed")
                       /\ UNCHANGED timerSeen
                  ELSE /\ currentTime' = newTime
                       /\ tickDue' = FALSE
                       /\ UNCHANGED <<phase, effectPending, pos, playing,
                                      musicPlaying, timerActive, intervals, timerSeen,
                                      userStats, statsCalls>>
    /\ UNCHANGED <<phaseRef, endedPending, leadIn, startCont, resumeConts, tts,
                   sessionClock, pauses>>
    /\ UNCHANGED <<volumes, voiceVol, timerVol, startVol, volChanges, lifeVars>>
    /\ UNCHANGED <<loadVars, sideVars, scriptVars>>

\* ------------------------------------------------------------- onended chain
NextSeg(s) == IF s = "intro" THEN "main" ELSE "closing"

\* introAudio.onended / mainAudio.onended start the next element when phaseRef
\* reads playing; closingAudio.onended only logs.
EndedStarts(s) == s # "closing" /\ NextSeg(s) \in els /\ phaseRef = "playing"

\* The onended callbacks are created by initializeSession in the first render:
\* their volumes.voice_volume is session.layers.voice_volume.
EndedVolume == ElementVolume(SessionLayers.voice)

OnEnded ==
    /\ \E s \in endedPending :
         /\ endedPending' = endedPending \ {s}
         /\ IF EndedStarts(s)
            THEN /\ pos' = PlayPos(pos, NextSeg(s))
                 /\ playing' = PlayOn(playing, NextSeg(s))
                 /\ voiceVol' = [voiceVol EXCEPT ![NextSeg(s)] = EndedVolume]
            ELSE UNCHANGED <<pos, playing, voiceVol>>
    /\ UNCHANGED <<phase, phaseRef, effectPending, currentTime, musicPlaying,
                   timerActive, intervals, tickDue, timerSeen, leadIn, startCont, resumeConts,
                   tts, userStats, statsCalls, sessionClock, pauses>>
    /\ UNCHANGED <<volumes, musicVol, timerVol, startVol, volChanges, lifeVars>>
    /\ UNCHANGED <<loadVars, sideVars, scriptVars>>

\* ------------------------------------------------------------ volume sliders
\* if (phase === 'playing') in handleVolumeChange
VolumeAppliesPaused == phase = "paused"

VolumeApplies == phase = "playing"

\* onChange of the music slider: setVolumes, and while playing the music
\* element takes the value.
ChangeMusicVolume ==
    /\ ~disposed
    /\ phase # "loading"
    /\ volChanges < MaxVolChanges
    /\ volChanges' = volChanges + 1
    /\ \E v \in SliderValues \ {volumes.music} :
         /\ volumes' = [volumes EXCEPT !.music = v]
         /\ musicVol' = IF VolumeApplies /\ hasMusic THEN ElementVolume(v) ELSE musicVol
    /\ UNCHANGED <<phase, phaseRef, effectPending, currentTime, pos, playing,
                   endedPending, musicPlaying, timerActive, intervals, tickDue, timerSeen,
                   leadIn, startCont, resumeConts, tts, userStats, statsCalls,
                   sessionClock, pauses>>
    /\ UNCHANGED <<voiceVol, timerVol, startVol, lifeVars>>
    /\ UNCHANGED <<loadVars, sideVars, scriptVars>>

\* onChange of the voice slider: setVolumes, and while playing every narration
\* element that exists takes the value.
ChangeVoiceVolume ==
    /\ ~disposed
    /\ phase # "loading"
    /\ volChanges < MaxVolChanges
    /\ volChanges' = volChanges + 1
    /\ \E v \in SliderValues \ {volumes.voice} :
         /\ volumes' = [volumes EXCEPT !.voice = v]
         /\ voiceVol' = IF VolumeApplies
                        THEN [s \in Segs |-> IF s \in els THEN ElementVolume(v)
                                                          ELSE voiceVol[s]]
                        ELSE voiceVol
    /\ UNCHANGED <<phase, phaseRef, effectPending, currentTime, pos, playing,
                   endedPending, musicPlaying, timerActive, intervals, tickDue, timerSeen,
                   leadIn, startCont, resumeConts, tts, userStats, statsCalls,
                   sessionClock, pauses>>
    /\ UNCHANGED <<musicVol, timerVol, startVol, lifeVars>>
    /\ UNCHANGED <<loadVars, sideVars, scriptVars>>

\* ------------------------------------------------------------------- cleanup
\* Click on the header's back button (onClose): the dashboard unmounts the
\* player and the mount effect's cleanup() runs: stopAll(), every narration
\* element paused and its object URL revoked, the interval in timerRef cleared.
\* The lead-in timeout, the suspended startSession and resumeSession calls and
\* phaseRef.current are left as they are.
Teardown ==
    /\ ~disposed
    /\ phase # "loading"
    /\ disposed' = TRUE
    /\ released' = els
    /\ musicPlaying' = FALSE
    /\ playing' = AllPaused
    /\ timerActive' = FALSE
    /\ intervals' = Cleared(intervals, timerActive)
    /\ tickDue' = FALSE
    /\ effectPending' = FALSE
    /\ UNCHANGED <<phase, phaseRef, currentTime, pos, endedPending, timerSeen,
                   leadIn, startCont, resumeConts, tts, userStats, statsCalls,
                   sessionClock, pauses>>
    /\ UNCHANGED mixVars
    /\ UNCHANGED <<loadVars, sideVars, scriptVars>>

\* ------------------------------------------------------------ passage of time
\* A callback that is due runs before the next second passes.
NothingDue ==
    /\ ~tickDue
    /\ leadIn # 0
    /\ endedPending = {}
    /\ ~effectPending
    /\ startCont # "music"
    /\ resumeConts = <<>>
    /\ tts # "due"

Advance ==
    /\ phase \in {"playing", "paused", "completed"}
    /\ NothingDue
    /\ leadIn' = IF leadIn > 0 THEN leadIn - 1 ELSE leadIn
    /\ tickDue' = timerActive
    /\ pos' = [s \in Segs |-> IF playing[s] THEN pos[s] + 1 ELSE pos[s]]
    /\ playing' = [s \in Segs |-> playing[s] /\ pos[s] + 1 < dur[s]]
    /\ endedPending' = {s \in Segs : playing[s] /\ pos[s] + 1 >= dur[s]}
    /\ tts' = IF tts = "wait" THEN "due" ELSE tts
    /\ sessionClock' = IF phase = "playing"
                       THEN Min(sessionClock + 1, VOICE_START_DELAY)
                       ELSE sessionClock
    /\ UNCHANGED <<phase, phaseRef, effectPending, currentTime, musicPlaying,
                   timerActive, intervals, timerSeen, startCont, resumeConts, userStats,
                   statsCalls, pauses>>
    /\ UNCHANGED <<mixVars, lifeVars>>
    /\ UNCHANGED <<loadVars, sideVars, scriptVars>>

Next ==
    \/ GenerateScriptStep
    \/ LoadMusicStep
    \/ ProbeStep
    \/ SynthesizeStep
    \/ MeasureStep
    \/ ResumeAudioContextStep
    \/ ReadyTimeout
    \/ PhaseEffect
    \/ StartSession
    \/ StartMusicSettled
    \/ StartScriptSettled
    \/ SpeechTimeout
    \/ SpeechEnd
    \/ LeadInTimeout
    \/ PauseSession
    \/ ResumeSession
    \/ ResumeSettled
    \/ StopClick
    \/ Tick
    \/ OnEnded
    \/ Advance

Spec == Init /\ [][Next]_vars

\* The callbacks the event loop runs once they are due, the network and media
\* promises that settle, and the passage of time; the user's clicks are not
\* obliged to happen.
LiveSpec ==
    /\ Spec
    /\ WF_vars(GenerateScriptStep)
    /\ WF_vars(LoadMusicStep)
    /\ WF_vars(ProbeStep)
    /\ WF_vars(SynthesizeStep)
    /\ WF_vars(MeasureStep)
    /\ WF_vars(ResumeAudioContextStep)
    /\ WF_vars(ReadyTimeout)
    /\ WF_vars(PhaseEffect)
    /\ WF_vars(StartMusicSettled)
    /\ WF_vars(StartScriptSettled)
    /\ WF_vars(SpeechTimeout)
    /\ WF_vars(SpeechEnd)
    /\ WF_vars(LeadInTimeout)
    /\ WF_vars(ResumeSettled)
    /\ WF_vars(Tick)
    /\ WF_vars(OnEnded)
    /\ WF_vars(Advance)

\* ------------------------------------------------- the loaded session in use
\* The player from the moment the ready timeout fired after a load that
\* produced the three narration elements, now with the volume sliders and the
\* back button: the music either loaded or not, the segments n seconds long.
PlayerInit ==
    /\ phase = "ready"
    /\ phaseRef = "loading"
    /\ effectPending = TRUE
    /\ currentTime = 0
    /\ initPc = "done"
    /\ els = Segs
    /\ \E n \in 1..MaxSegDur :
         /\ measured = [s \in Segs |-> 10 * n]
         /\ dur = [s \in Segs |-> n]
         /\ totalTime = ActualSessionDuration([s \in Segs |-> 10 * n])
    /\ pos = AllZero
    /\ playing = AllPaused
    /\ endedPending = {}
    /\ hasMusic \in BOOLEAN
    /\ musicPlaying = FALSE
    /\ timerActive = FALSE
    /\ intervals = 0
    /\ tickDue = FALSE
    /\ timerSeen = 0
    /\ leadIn = NoTimeout
    /\ startCont = "none"
    /\ resumeConts = <<>>
    /\ tts = "none"
    /\ userStats = 0
    /\ statsCalls = 0
    /\ sessionClock = 0
    /\ pauses = 0
    /\ volumes = SessionLayers
    /\ musicVol = ElementVolume(SessionLayers.music)
    /\ voiceVol = [s \in Segs |-> DefaultVolume]
    /\ timerVol = SessionLayers.music
    /\ startVol = SessionLayers
    /\ volChanges = 0
    /\ disposed = FALSE
    /\ released = {}
    /\ script = NoScript
    /\ sent = NotSent
    /\ SideInit

\* The playback handlers of a loaded session.
PlaybackNext ==
    \/ PhaseEffect
    \/ StartSession
    \/ StartMusicSettled
    \/ LeadInTimeout
    \/ PauseSession
    \/ ResumeSession
    \/ ResumeSettled
    \/ StopClick
    \/ Tick
    \/ OnEnded
    \/ Advance

\* The loaded session with the volume sliders.
MixerNext == PlaybackNext \/ ChangeMusicVolume \/ ChangeVoiceVolume

MixerSpec == PlayerInit /\ [][MixerNext]_vars

\* The loaded session with the back button.
DisposalNext == PlaybackNext \/ Teardown

DisposalSpec == PlayerInit /\ [][DisposalNext]_vars

\* ------------------------------------------------- measuring the narration
\* initializeSession from the moment the three elements exist, with measured
\* durations that are not whole seconds, up to the ready phase.
DurationInit ==
    /\ phase = "loading"
    /\ phaseRef = "loading"
    /\ effectPending = FALSE
    /\ currentTime = 0
    /\ totalTime = SessionDuration * 60
    /\ initPc = "measure"
    /\ els = Segs
    /\ measured = [s \in Segs |-> 0]
    /\ dur = [s \in Segs |-> 0]
    /\ pos = AllZero
    /\ playing = AllPaused
    /\ endedPending = {}
    /\ hasMusic \in BOOLEAN
    /\ musicPlaying = FALSE
    /\ timerActive = FALSE
    /\ intervals = 0
    /\ tickDue = FALSE
    /\ timerSeen = 0
    /\ leadIn = NoTimeout
    /\ startCont = "none"
    /\ resumeConts = <<>>
    /\ tts = "none"
    /\ userStats = 0
    /\ statsCalls = 0
    /\ sessionClock = 0
    /\ pauses = 0
    /\ volumes = SessionLayers
    /\ musicVol = ElementVolume(SessionLayers.music)
    /\ voiceVol = [s \in Segs |-> DefaultVolume]
    /\ timerVol = SessionLayers.music
    /\ startVol = SessionLayers
    /\ volChanges = 0
    /\ disposed = FALSE
    /\ released = {}
    /\ script = FullScript
    /\ sent = FullScript
    /\ SideInit

DurationNext ==
    \/ MeasureFractionalStep
    \/ ResumeAudioContextStep
    \/ ReadyTimeout
    \/ PhaseEffect

DurationSpec == DurationInit /\ [][DurationNext]_vars

\* LiveSpec with a user who, whenever the session stays paused, eventually
\* clicks Resume or Stop Session.
SessionSpec == LiveSpec /\ WF_vars(ResumeSession \/ StopClick)

TypeOK ==
    /\ phase \in Phases
    /\ phaseRef \in Phases
    /\ currentTime \in 0..totalTime
    /\ \A s \in Segs : pos[s] \in 0..dur[s]
    /\ leadIn \in NoTimeout..VOICE_START_DELAY

\* ------------------------------------------------- the load, with any script
\* initializeSession up to setPhase('ready') with a server that may return a
\* script in which segments are missing, empty or blank.
LoadingNext ==
    \/ GenerateAnyScriptStep
    \/ LoadMusicStep
    \/ ProbeStep
    \/ SynthesizeStep
    \/ MeasureStep
    \/ ResumeAudioContextStep
    \/ ReadyTimeout
    \/ PhaseEffect

LoadingSpec == Init /\ [][LoadingNext]_vars

\* ---------------------------------------------------- PromptTemplateManager
\* calculateMaxWordCount(durationMinutes).  Minutes are counted in units of
\* 1/300 minute, in which 10 / 60 and 0.17 are whole numbers; the arithmetic
\* is exact.  The requested durations are multiples of a twentieth of a minute.
UnitsPerMinute == 300

MaxTwentieths == 30     \* requested durations: 0 .. MaxTwentieths / 20 minutes

RequestedMinutes == {(UnitsPerMinute \div 20) * k : k \in 0..MaxTwentieths}

voiceStartDelay == 50       \* 10 / 60 minutes
outroMinutes == 51          \* 0.17 minutes
baseWordsPerMinute == 75
MinWordCount == 50

Max(a, b) == IF a > b THEN a ELSE b

\* durationMinutes - voiceStartDelay - 0.17
availableMinutes(d) == d - voiceStartDelay - outroMinutes

\* Math.floor(availableMinutes * wordsPerMinute)
wordCountRounded(d) ==
    (2 * availableMinutes(d) * baseWordsPerMinute + UnitsPerMinute) \div (2 * UnitsPerMinute)

wordCount(d) == (availableMinutes(d) * baseWordsPerMinute) \div UnitsPerMinute

\* return Math.max(50, wordCount)
calculateMaxWordCountUnclamped(d) == wordCount(d)

calculateMaxWordCount(d) == Max(MinWordCount, wordCount(d))

\* A call of calculateMaxWordCount; the last two calls are remembered.
LastTwo(q) == IF Len(q) > 2 THEN Tail(q) ELSE q

CalculateMaxWordCountCall ==
    /\ \E d \in RequestedMinutes :
         wordCalls' = LastTwo(Append(wordCalls,
                          [durationMinutes |-> d, result |-> calculateMaxWordCount(d)]))
    /\ UNCHANGED <<playerVars, factoryCalls, promptVars, wizardVars>>

WordCountNext == CalculateMaxWordCountCall

WordCountSpec == Init /\ [][WordCountNext]_vars

\* ------------------------------------------------------ createVoiceSynthesis
\* process.env as the factory reads it: each of the two variables is unset, set
\* to the empty string or set to a key; window exists in the browser only.
EnvValues == {"unset", "", "sk_a", "sk_b"}

Environments ==
    [ELEVENLABS_API_KEY : EnvValues, NEXT_PUBLIC_ELEVENLABS_API_KEY : EnvValues,
     window : BOOLEAN]

\* JavaScript truthiness of process.env.X: undefined and '' are falsy.
Truthy(v) == v \notin {"unset", ""}

\* process.env.ELEVENLABS_API_KEY || process.env.NEXT_PUBLIC_ELEVENLABS_API_KEY
apiKeyServerOnly(e) == e.ELEVENLABS_API_KEY

apiKey(e) ==
    IF Truthy(e.ELEVENLABS_API_KEY) THEN e.ELEVENLABS_API_KEY
    ELSE e.NEXT_PUBLIC_ELEVENLABS_API_KEY

\* new VoiceSynthesis(apiKey) stores the key; new FallbackVoiceSynthesis() takes
\* window.speechSynthesis where there is a window.
createVoiceSynthesis(e) ==
    IF Truthy(apiKey(e))
    THEN [class |-> "VoiceSynthesis", apiKey |-> apiKey(e), synth |-> FALSE]
    ELSE [class |-> "FallbackVoiceSynthesis", apiKey |-> "unset", synth |-> e.window]

CreateVoiceSynthesisCall ==
    /\ \E e \in Environments :
         factoryCalls' = LastTwo(Append(factoryCalls,
                             [env |-> e, result |-> createVoiceSynthesis(e)]))
    /\ UNCHANGED <<playerVars, wordCalls, promptVars, wizardVars>>

FactoryNext == CreateVoiceSynthesisCall

FactorySpec == Init /\ [][FactoryNext]_vars

\* ------------------------------------------------------------ generatePrompt
\* A text is a sequence of pieces: a placeholder, a marker of the template
\* file, white space, one of the replacement patterns that String.replace
\* interprets in a replacement string ($$ and $&), or other text.
MaxTemplateLen == 3     \* pieces of a template
MaxFileLen == 3         \* pieces of a template file that is not well formed

startMarker == "**[START OF PROMPT]**"
endMarker == "**[END OF PROMPT]**"

KnownPlaceholders ==
    <<"{{Wisdom_Source_Name}}", "{{Wisdom_Snippet}}", "{{User_Primer}}",
      "{{User_Goal}}", "{{User_Feelings_List}}", "{{Max_Word_Count}}">>

Range(q) == {q[i] : i \in DOMAIN q}

SeqsUpTo(S, n) == UNION {[1..k -> S] : k \in 0..n}

TemplatePieces == Range(KnownPlaceholders) \cup {"{{Session_Title}}", "text"}

FilePieces == {startMarker, endMarker, " ", "text", "{{User_Goal}}"}

\* The PromptVariables of a call.  The primer and the goal are text the user
\* typed; the primer and the feelings list may be empty.
PromptVariables ==
    [Wisdom_Source_Name : {<<"source">>},
     Wisdom_Snippet : {<<"snippet">>},
     User_Primer : {<<>>, <<"primer">>, <<"$$">>, <<"{{User_Goal}}">>},
     User_Goal : {<<"goal">>, <<"$&">>, <<"{{User_Primer}}">>},
     User_Feelings_List : {<<>>, <<"feelings">>},
     Max_Word_Count : {MinWordCount}]

\* template.indexOf(marker): the first position, 0 for -1.
IndexOf(q, x) ==
    IF x \in Range(q) THEN CHOOSE i \in DOMAIN q : q[i] = x /\ \A j \in 1..(i - 1) : q[j] # x
    ELSE 0

\* String.prototype.substring(a, b) on positions between pieces (0 .. Len):
\* the arguments are swapped when a > b.
Substring(q, a, b) ==
    LET lo == Min(a, b)
        hi == Max(a, b)
    IN  SubSeq(q, lo + 1, hi)

\* String.prototype.trim()
RECURSIVE TrimStart(_)
TrimStart(q) == IF q # <<>> /\ Head(q) = " " THEN TrimStart(Tail(q)) ELSE q

RECURSIVE TrimEnd(_)
TrimEnd(q) ==
    IF q # <<>> /\ q[Len(q)] = " " THEN TrimEnd(SubSeq(q, 1, Len(q) - 1)) ELSE q

Trim(q) == TrimEnd(TrimStart(q))

\* getFallbackTemplate(): each of the six placeholders once, between text.
getFallbackTemplate ==
    <<" ", "text", "{{Wisdom_Source_Name}}", "text", "{{Wisdom_Snippet}}", "text",
      "{{User_Primer}}", "text", "{{User_Goal}}", "text", "{{User_Feelings_List}}",
      "text", "{{Max_Word_Count}}", "text", " ">>

\* loadTemplate(): the cached template if there is one; otherwise the text
\* between the markers of the file, which is cached; the fallback template,
\* which is not cached, when the file cannot be read or a marker is missing.
MarkersFound(f) == IndexOf(f.text, startMarker) # 0 /\ IndexOf(f.text, endMarker) # 0

promptContent(f) ==
    Trim(Substring(f.text, IndexOf(f.text, startMarker), IndexOf(f.text, endMarker) - 1))

loadTemplateUncaught(cache, f) ==
    IF cache.is = "text" /\ cache.text # <<>> THEN [template |-> cache, cache |-> cache]
    ELSE IF f.readable /\ MarkersFound(f)
         THEN [template |-> Text(promptContent(f)), cache |-> Text(promptContent(f))]
         ELSE [template |-> Raised, cache |-> cache]

loadTemplate(cache, f) ==
    IF cache.is = "text" /\ cache.text # <<>> THEN [template |-> cache, cache |-> cache]
    ELSE IF f.readable /\ MarkersFound(f)
         THEN [template |-> Text(promptContent(f)), cache |-> Text(promptContent(f))]
         ELSE [template |-> Text(getFallbackTemplate), cache |-> cache]

\* The replacement string as String.replace inserts it for the match m:
\* $$ becomes $, $& becomes the matched text.
Expand(v, m) ==
    [i \in DOMAIN v |-> IF v[i] = "$$" THEN "$" ELSE IF v[i] = "$&" THEN m ELSE v[i]]

\* prompt.replace(/\{\{Name\}\}/g, v)
RECURSIVE ReplaceAll(_, _, _)
ReplaceAll(q, p, v) ==
    IF q = <<>> THEN <<>>
    ELSE (IF Head(q) = p THEN Expand(v, p) ELSE <<Head(q)>>) \o ReplaceAll(Tail(q), p, v)

\* Number.prototype.toString()
NumberToString(n) == <<IF n = MinWordCount THEN "50" ELSE "digits">>

\* variables.User_Primer || 'No specific primer provided', and the like.
OrDefault(v, d) == IF v = <<>> THEN <<d>> ELSE v

\* The value each placeholder is replaced by, in the order of the replaces.
Replacements(vs) ==
    <<vs.Wisdom_Source_Name, vs.Wisdom_Snippet,
      OrDefault(vs.User_Primer, "No specific primer provided"),
      vs.User_Goal,
      OrDefault(vs.User_Feelings_List, "None specified"),
      NumberToString(vs.Max_Word_Count)>>

\* The six replaces of generatePrompt, one after the other, from the k-th on.
RECURSIVE ReplaceFrom(_, _, _)
ReplaceFrom(q, vs, k) ==
    IF k > Len(KnownPlaceholders) THEN q
    ELSE ReplaceFrom(ReplaceAll(q, KnownPlaceholders[k], Replacements(vs)[k]), vs, k + 1)

SubstituteWithHeader(q, vs) == <<"text">> \o ReplaceFrom(q, vs, 1)

Substitute(q, vs) == ReplaceFrom(q, vs, 1)

\* generatePrompt(variables)
GeneratePromptCall ==
    /\ prompt.is = "none"
    /\ LET loaded == loadTemplate(templateCache, templateFile) IN
         /\ templateCache' = loaded.cache
         /\ prompt' = IF loaded.template.is = "raised" THEN Raised
                      ELSE Text(Substitute(loaded.template.text, variables))
    /\ UNCHANGED <<templateFile, variables, reapplied, validation>>
    /\ UNCHANGED <<playerVars, wordCalls, factoryCalls, wizardVars>>

\* The six replaces applied to the returned prompt, with the same values.
SubstituteAgain ==
    /\ prompt.is = "text"
    /\ reapplied.is = "none"
    /\ reapplied' = Text(Substitute(prompt.text, variables))
    /\ UNCHANGED <<templateFile, templateCache, variables, prompt, validation>>
    /\ UNCHANGED <<playerVars, wordCalls, factoryCalls, wizardVars>>

\* The message of the error raised inside loadTemplate: readFileSync's, or the
\* one thrown for a missing marker.
LoadError(f) ==
    IF f.readable THEN "Could not find prompt markers in template file"
    ELSE "ENOENT: no such file or directory"

\* validateTemplate: try { await this.loadTemplate(); return { isValid: true } }
\* catch (error) { return { isValid: false, error: error.message } }
validateTemplate(cache, f) ==
    LET loaded == loadTemplate(cache, f) IN
      IF loaded.template.is = "raised"
      THEN [is |-> "done", isValid |-> FALSE, error |-> LoadError(f)]
      ELSE [is |-> "done", isValid |-> TRUE, error |-> ""]

ValidateTemplateCall ==
    /\ validation.is = "none"
    /\ validation' = validateTemplate(templateCache, templateFile)
    /\ templateCache' = loadTemplate(templateCache, templateFile).cache
    /\ UNCHANGED <<templateFile, variables, prompt, reapplied>>
    /\ UNCHANGED <<playerVars, wordCalls, factoryCalls, wizardVars>>

PromptNext == GeneratePromptCall \/ SubstituteAgain \/ ValidateTemplateCall

\* A template file with both markers around a template.
PromptInit ==
    /\ PlayerConstructed
    /\ NoCalls
    /\ WizardDone
    /\ \E t \in SeqsUpTo(TemplatePieces, MaxTemplateLen) :
         templateFile = [readable |-> TRUE, text |-> <<startMarker>> \o t \o <<endMarker>>]
    /\ templateCache = NoText
    /\ variables \in PromptVariables
    /\ prompt = NoText
    /\ reapplied = NoText
    /\ validation = NotValidated

PromptSpec == PromptInit /\ [][PromptNext]_vars

\* Any template file, readable or not, with or without the markers.
LoaderInit ==
    /\ PlayerConstructed
    /\ NoCalls
    /\ WizardDone
    /\ templateFile \in [readable : BOOLEAN, text : SeqsUpTo(FilePieces, MaxFileLen)]
    /\ templateCache = NoText
    /\ variables \in PromptVariables
    /\ prompt = NoText
    /\ reapplied = NoText
    /\ validation = NotValidated

LoaderSpec == LoaderInit /\ [][PromptNext]_vars

\* ------------------------------------------------------------ AssessmentFlow
\* The wizard: steps 1..6 collect the answers, 7 is the primer, 8 generating,
\* 9 the review, 10 the voice.  The header's back button is there at every
\* step.  A call of generateScript is suspended at await import(authClient) and
\* at await fetch('/api/scripts'); several calls can be in flight.
MaxGenerations == 2     \* clicks on Generate Script

SurveyStep == 4
PrimerStep == 7
GeneratingStep == 8
ReviewStep == 9
VoiceStep == 10

Outcomes == {"pending", "ok", "no token", "401", "error"}

\* The answers of the server to POST /api/scripts, and a fetch that rejects.
Responses ==
    {"200", "200 not json", "401", "401 not json", "500", "500 not json", "rejected"}

\* The message of the error the catch of generateScript receives.
ErrorMessage(r) ==
    CASE r = "401" -> "Authentication failed. Please log in again."
      [] r = "500" -> "HTTP 500: Script generation failed"
      [] r = "rejected" -> "Failed to fetch"
      [] OTHER -> "Unexpected token in JSON"

OutcomeOf(r) ==
    CASE r = "200" -> "ok"
      [] r \in {"401", "401 not json"} -> "401"
      [] OTHER -> "error"

\* const requiredAnswers = ['currentState', 'experience', 'environment']
requiredAnswers == {"currentState", "experience", "environment"}

\* handleGoalSelect: a radio of step 1.
GoalSelect ==
    /\ showAssessment
    /\ step = 1
    /\ selectedGoal' = TRUE
    /\ UNCHANGED <<step, showAssessment, currentSession, attempts, reviewTimers, alerts,
                   generatedScript, assessment>>
    /\ UNCHANGED <<playerVars, wordCalls, factoryCalls, promptVars>>

\* handleSurveyAnswer: an option of one of the questions of step 4.
SurveyAnswer ==
    /\ showAssessment
    /\ step = SurveyStep
    /\ \E q \in requiredAnswers : assessment' = assessment \cup {q}
    /\ UNCHANGED <<step, showAssessment, currentSession, attempts, reviewTimers, alerts,
                   generatedScript, selectedGoal>>
    /\ UNCHANGED <<playerVars, wordCalls, factoryCalls, promptVars>>

\* requiredAnswers.every(key => assessment[key])
hasAllAnswersAssumed(a) == TRUE

hasAllAnswers(a) == requiredAnswers \subseteq a

\* handleContinueFromGoal .. handleContinueFromMusic: from the goal only with a
\* goal selected, from the survey only with the three answers.
ContinueStep ==
    /\ showAssessment
    /\ step < PrimerStep
    /\ step = 1 => selectedGoal
    /\ step = SurveyStep => hasAllAnswers(assessment)
    /\ step' = step + 1
    /\ UNCHANGED <<showAssessment, currentSession, attempts, reviewTimers, alerts,
                   generatedScript, answerVars>>
    /\ UNCHANGED <<playerVars, wordCalls, factoryCalls, promptVars>>

\* The header button: onCancel at step 1, setStep(step - 1) otherwise.
BackStep ==
    /\ showAssessment
    /\ IF step = 1
       THEN showAssessment' = FALSE /\ step' = step
       ELSE showAssessment' = showAssessment /\ step' = step - 1
    /\ UNCHANGED <<currentSession, attempts, reviewTimers, alerts, generatedScript, answerVars>>
    /\ UNCHANGED <<playerVars, wordCalls, factoryCalls, promptVars>>

\* handleContinueFromPrimer: setStep(8); generateScript()
ContinueFromPrimer ==
    /\ showAssessment
    /\ step = PrimerStep
    /\ Len(attempts) < MaxGenerations
    /\ step' = GeneratingStep
    /\ attempts' = Append(attempts, [pc |-> "import", outcome |-> "pending"])
    /\ UNCHANGED <<showAssessment, currentSession, reviewTimers, alerts, generatedScript,
                   answerVars>>
    /\ UNCHANGED <<playerVars, wordCalls, factoryCalls, promptVars>>

\* The catch of generateScript: alert(errorMessage); setStep(7).  A state
\* update of an unmounted component does nothing.
StepAfterFailureStays(st) == st

StepAfterFailure(st) == PrimerStep

Failed(i, outcome, message) ==
    /\ attempts' = [attempts EXCEPT ![i] = [pc |-> "done", outcome |-> outcome]]
    /\ alerts' = Append(alerts, message)
    /\ step' = IF showAssessment THEN StepAfterFailure(step) ELSE step
    /\ UNCHANGED <<reviewTimers, generatedScript>>

\* generateScript after await import: throws without a token.
TokenRead ==
    /\ \E i \in DOMAIN attempts :
         /\ attempts[i].pc = "import"
         /\ \E token \in BOOLEAN :
              IF token
              THEN /\ attempts' = [attempts EXCEPT ![i].pc = "fetch"]
                   /\ UNCHANGED <<step, reviewTimers, alerts, generatedScript>>
              ELSE Failed(i, "no token", "Authentication required. Please log in.")
    /\ UNCHANGED <<showAssessment, currentSession, answerVars>>
    /\ UNCHANGED <<playerVars, wordCalls, factoryCalls, promptVars>>

\* generateScript after await fetch and await response.json(): the script is
\* kept and the review scheduled, or the error is thrown to the catch.
Responded ==
    /\ \E i \in DOMAIN attempts :
         /\ attempts[i].pc = "fetch"
         /\ \E r \in Responses :
              IF r = "200"
              THEN /\ attempts' = [attempts EXCEPT ![i] = [pc |-> "done", outcome |-> "ok"]]
                   /\ generatedScript' = IF showAssessment THEN "script text"
                                         ELSE generatedScript
                   /\ reviewTimers' = reviewTimers + 1
                   /\ UNCHANGED <<step, alerts>>
              ELSE Failed(i, OutcomeOf(r), ErrorMessage(r))
    /\ UNCHANGED <<showAssessment, currentSession, answerVars>>
    /\ UNCHANGED <<playerVars, wordCalls, factoryCalls, promptVars>>

\* setTimeout(() => setStep(9), 1000)
ReviewTimeout ==
    /\ reviewTimers > 0
    /\ reviewTimers' = reviewTimers - 1
    /\ step' = IF showAssessment THEN ReviewStep ELSE step
    /\ UNCHANGED <<showAssessment, currentSession, attempts, alerts, generatedScript,
                   answerVars>>
    /\ UNCHANGED <<playerVars, wordCalls, factoryCalls, promptVars>>

\* handleContinueFromReview
ContinueFromReview ==
    /\ showAssessment
    /\ step = ReviewStep
    /\ step' = VoiceStep
    /\ UNCHANGED <<showAssessment, currentSession, attempts, reviewTimers, alerts,
                   generatedScript, answerVars>>
    /\ UNCHANGED <<playerVars, wordCalls, factoryCalls, promptVars>>

\* handleCreateSession: onComplete(sessionConfig); the Dashboard keeps the
\* configuration, unmounts the wizard and mounts the player, whose effect calls
\* initializeSession.
HandleCreateSession ==
    /\ showAssessment
    /\ step = VoiceStep
    /\ currentSession' = TRUE
    /\ showAssessment' = FALSE
    /\ initPc' = "script"
    /\ UNCHANGED <<step, attempts, reviewTimers, alerts, generatedScript, answerVars>>
    /\ UNCHANGED <<totalTime, els, measured, dur, hasMusic>>
    /\ UNCHANGED <<playVars, scriptVars, wordCalls, factoryCalls, promptVars>>

\* The Dashboard has opened the wizard; no player is mounted.
WizardInit ==
    /\ PlayerAt("unmounted")
    /\ NoCalls
    /\ NoPrompt
    /\ step = 1
    /\ showAssessment = TRUE
    /\ currentSession = FALSE
    /\ attempts = <<>>
    /\ reviewTimers = 0
    /\ alerts = <<>>
    /\ generatedScript = ""
    /\ selectedGoal = FALSE
    /\ assessment = {}

\* The wizard, and the load of the player it hands the session to.
WizardNext ==
    \/ GoalSelect
    \/ SurveyAnswer
    \/ ContinueStep
    \/ BackStep
    \/ ContinueFromPrimer
    \/ TokenRead
    \/ Responded
    \/ ReviewTimeout
    \/ ContinueFromReview
    \/ HandleCreateSession
    \/ GenerateScriptStep
    \/ LoadMusicStep
    \/ ProbeStep
    \/ SynthesizeStep
    \/ MeasureStep
    \/ ResumeAudioContextStep
    \/ ReadyTimeout
    \/ PhaseEffect

WizardSpec == WizardInit /\ [][WizardNext]_vars

\* ==================================================================== claims

NarrationPlaying == \E s \in Segs : playing[s]

AllowedChanges ==
    { <<"loading", "ready">>, <<"ready", "playing">>, <<"playing", "paused">>,
      <<"paused", "playing">>, <<"playing", "completed">>, <<"paused", "completed">> }

\* C1: every change of the phase is one of loading->ready, ready->playing,
\* playing->paused, paused->playing, playing->completed, paused->completed, and
\* the phase is always exactly one of the five phases.
C1_PhaseChanges ==
    [][phase' \in Phases /\ (phase' # phase => <<phase, phase'>> \in AllowedChanges)]_vars

C1_Witness == phase = "completed" /\ pauses = MaxPauses /\ currentTime = totalTime

\* C2: from loading the session always eventually reaches ready.
C2_LoadingReachesReady == <>(phase = "ready")

\* C3: no narration segment plays before the lead-in of session time (time in
\* playing since the start, paused time excluded) has elapsed.
C3_NoNarrationBeforeLeadIn == NarrationPlaying => sessionClock >= VOICE_START_DELAY

\* C4: when the lead-in timeout fires while the phase is not playing it is a
\* no-op: no narration element starts and no position changes.
C4_TimeoutNoOp ==
    [][(leadIn = 0 /\ leadIn' = NoTimeout /\ phase # "playing")
         => (playing' = playing /\ pos' = pos)]_vars

C4_Witness ==
    /\ phase = "paused" /\ pauses = 1 /\ els = Segs
    /\ startCont = "done" /\ leadIn = NoTimeout
    /\ sessionClock < VOICE_START_DELAY
    /\ ~NarrationPlaying /\ pos = AllZero

\* C5: while the phase is loading, ready, paused or completed no tick fires and
\* elapsed time does not change.
C5_TimerOnlyWhilePlaying ==
    [][phase # "playing" => currentTime' = currentTime]_vars

\* C6: while the phase is paused neither the music nor a narration element is
\* playing, and the playback positions stay as they were at the pause.
C6_PausedIsSilent ==
    [][phase' = "paused"
         => /\ ~musicPlaying' /\ \A s \in Segs : ~playing'[s]
            /\ (phase = "paused" => pos' = pos)]_vars

\* C7: completed is terminal: the phase never changes again, elapsed time and
\* the user statistics do not change, and no music or narration element starts.
C7_CompletedTerminal ==
    [][phase = "completed"
         => /\ phase' = "completed"
            /\ currentTime' = currentTime
            /\ userStats' = userStats /\ statsCalls' = statsCalls
            /\ (musicPlaying' => musicPlaying)
            /\ \A s \in Segs : playing'[s] => playing[s]]_vars

Halted ==
    /\ ~musicPlaying
    /\ \A s \in Segs : ~playing[s] /\ pos[s] = 0
    /\ ~timerActive /\ ~tickDue

C9_StatsAreElapsedMinutes ==
    [][(phase # "completed" /\ phase' = "completed")
         => userStats' = userStats + Minutes(currentTime')]_vars

\* A step of the interval callback.
TickFired ==
    /\ timerActive /\ tickDue /\ ~tickDue'
    /\ pauses' = pauses /\ startCont' = startCont /\ resumeConts' = resumeConts

\* C10: a tick in playing adds exactly 1 to elapsed time; elapsed time never
\* decreases and never exceeds the total; the step that brings it to the total
\* moves the phase to completed with elapsed equal to the total.
C10_ElapsedTime ==
    [][/\ currentTime' >= currentTime
       /\ currentTime' <= totalTime'
       /\ ((phase = "playing" /\ TickFired) => currentTime' = currentTime + 1)
       /\ ((currentTime < totalTime /\ currentTime' >= totalTime')
             => (phase' = "completed" /\ currentTime' = totalTime'))]_vars

C10_Witness ==
    /\ phase = "completed" /\ currentTime = totalTime
    /\ statsCalls = 1 /\ pauses = 0

\* C11: with the callbacks running and every pause followed by a resume or a
\* stop, a session that was started eventually reaches completed.
C11_StartedSessionCompletes == (phase = "playing") ~> (phase = "completed")

C11_Witness ==
    /\ phase = "completed" /\ currentTime = totalTime
    /\ pauses = 1 /\ statsCalls = 1 /\ sessionClock = VOICE_START_DELAY

\* C12: a tick that leaves 0 < remaining <= 5 seconds sets the music volume to
\* (remaining / 5) times the music setting in force at that tick; any other
\* tick leaves the music volume alone.
C12_FadeUsesCurrentSetting ==
    [][(phase = "playing" /\ TickFired /\ currentTime' # currentTime /\ hasMusic)
         => LET remaining == totalTime - currentTime'
            IN IF remaining > 0 /\ remaining <= FadeWindow
               THEN musicVol' * FadeWindow = remaining * ElementVolume(volumes.music)
               ELSE musicVol' = musicVol]_vars

\* A step that starts segment s from its beginning.
SegStarts(s) == ~playing[s] /\ playing'[s] /\ pos'[s] = 0

\* The ended event of segment s is delivered.
EndedDelivered(s) == s \in endedPending /\ s \notin endedPending'

\* C13: the main segment starts only on the delivery of the intro's ended
\* event and the closing only on that of the main's, each while the phase is
\* playing, and the intro is the first segment to start.
C13_SegmentsChain ==
    [][/\ (SegStarts("main") => (EndedDelivered("intro") /\ phase = "playing"))
       /\ (SegStarts("closing") => (EndedDelivered("main") /\ phase = "playing"))
       /\ ((pos = AllZero /\ pos' # AllZero) => pos'["intro"] > 0)]_vars

C13_Witness ==
    /\ phase = "playing" /\ playing["closing"] /\ pos["closing"] > 0
    /\ pos["intro"] = dur["intro"] /\ pos["main"] = dur["main"]

\* C14: the end of the closing segment changes neither the phase nor the music
\* nor the timer, and the phase becomes completed only by the stop button or
\* by the tick that brings elapsed time to the total.
C14_ClosingEndKeepsPlaying ==
    [][/\ ((("closing" \notin endedPending /\ "closing" \in endedPending')
              \/ EndedDelivered("closing"))
            => (phase' = phase /\ musicPlaying' = musicPlaying
                /\ timerActive' = timerActive))
       /\ ((phase # "completed" /\ phase' = "completed")
            => (phase = "paused" \/ (TickFired /\ currentTime + 1 >= totalTime)))]_vars

C14_Witness ==
    /\ phase = "playing" /\ musicPlaying /\ timerActive
    /\ pos["closing"] = dur["closing"] /\ dur["closing"] > 0
    /\ endedPending = {} /\ currentTime < totalTime

\* The segments a resumeSession call finds paused in mid-playback.
MidPlayback == {s \in els : ~playing[s] /\ pos[s] > 0 /\ pos[s] < dur[s]}

\* The suspended resumeSession calls that wait for the music.
MusicWaits(q) == Cardinality({i \in 1..Len(q) : q[i].at = "music"})

\* A step in which a resumeSession call looks for the paused segment: the click
\* itself without music, the call's continuation with music.
ResumeLooks ==
    \/ phase = "paused" /\ phase' = "playing" /\ ~hasMusic
    \/ MusicWaits(resumeConts') < MusicWaits(resumeConts)

\* A step in which a resumeSession call returns.
ResumeReturns ==
    \/ ResumeLooks /\ Len(resumeConts') <= Len(resumeConts) /\ ~hasMusic
    \/ Len(resumeConts') < Len(resumeConts)

\* C15: the Resume click sets the music playing; the call then continues the
\* one segment that is in mid-playback from its position and starts no other,
\* or starts the intro from 0 when no segment has a position yet; and when the
\* call returns the timer is running.
C15_ResumeContinues ==
    [][/\ ((phase = "paused" /\ phase' = "playing" /\ hasMusic) => musicPlaying')
       /\ (ResumeLooks =>
             /\ \A m \in Segs : MidPlayback = {m} =>
                   /\ playing'[m] /\ pos' = pos
                   /\ \A s \in Segs \ {m} : playing'[s] = playing[s]
             /\ (MidPlayback = {} /\ els = Segs /\ pos = AllZero /\ playing = AllPaused)
                  => (/\ playing'["intro"] /\ pos' = AllZero
                      /\ ~playing'["main"] /\ ~playing'["closing"]))
       /\ (ResumeReturns => (timerActive' /\ ~tickDue'))]_vars

C15_Witness ==
    /\ phase = "playing" /\ pauses = 1 /\ resumeConts = <<>> /\ timerActive
    /\ playing["main"] /\ pos["main"] > 0 /\ pos["main"] < dur["main"]
    /\ ~playing["intro"] /\ ~playing["closing"] /\ pos["closing"] = 0

\* C16: a slider change while the phase is playing is applied at once: a music
\* change sets the music element's volume to the new value, a voice change
\* sets the volume of every narration element that exists.
C16_VolumeAppliedWhilePlaying ==
    [][phase = "playing" =>
         /\ (volumes'.music # volumes.music /\ hasMusic)
              => musicVol' = ElementVolume(volumes'.music)
         /\ volumes'.voice # volumes.voice
              => \A s \in els : voiceVol'[s] = ElementVolume(volumes'.voice)]_vars

C16_Witness ==
    /\ phase = "playing" /\ volChanges = 1 /\ volumes.voice # SessionLayers.voice
    /\ pos["closing"] = 0 /\ ~playing["closing"]
    /\ voiceVol["closing"] = ElementVolume(volumes.voice)

\* C17: a narration segment that starts or resumes plays at the voice volume
\* the user set last.
C17_SegmentsStartAtSetVolume ==
    [][\A s \in Segs :
         (~playing[s] /\ playing'[s]) => voiceVol'[s] = ElementVolume(volumes'.voice)]_vars

\* C18: once the narration is measured the total is the least whole number of
\* seconds not below lead-in + intro + main + closing + fade-out, in place of
\* the requested duration from before the phase is ready; 12 s, 90 s and 15 s
\* give 137.
C18_TotalIsCeiling ==
    (els = Segs /\ initPc \in {"audioctx", "timer", "done"}) =>
        LET sum == 10 * VOICE_START_DELAY
                   + measured["intro"] + measured["main"] + measured["closing"]
                   + 10 * MUSIC_FADE_AFTER_VOICE
        IN /\ 10 * totalTime >= sum
           /\ 10 * (totalTime - 1) < sum
           /\ (measured = [intro |-> 120, main |-> 900, closing |-> 150]
                 => totalTime = 137)

C18_Witness ==
    /\ phase = "ready" /\ totalTime = 23
    /\ measured = [intro |-> 5, main |-> 5, closing |-> 17]

\* C19: once the component is disposed every narration handle is released, no
\* tick fires and neither the music nor a narration segment starts again.
C19_NothingAfterTeardown ==
    [][/\ (disposed' => released' = els')
       /\ (disposed =>
             /\ ~(tickDue /\ ~tickDue')
             /\ (musicPlaying' => musicPlaying)
             /\ \A s \in Segs : playing'[s] => playing[s])]_vars

\* C20: while the three narration requests are awaited no narration element
\* exists, and afterwards the elements kept are all three or none.
C20_AllThreeOrNone ==
    /\ (els = {} \/ els = Segs)
    /\ (initPc \in {"script", "music", "probe", "synth"} => els = {})

C20_Witness == els = Segs /\ initPc = "measure"

\* C22: calculateMaxWordCount returns a whole number that is at least 50, never
\* negative, for every requested duration D >= 0, and a longer requested
\* duration never gets a smaller result.
C22_WordBudgetFloorAndMonotone ==
    /\ \A i \in DOMAIN wordCalls :
         wordCalls[i].result \in Nat /\ wordCalls[i].result >= 50
    /\ \A i, j \in DOMAIN wordCalls :
         wordCalls[i].durationMinutes <= wordCalls[j].durationMinutes
             => wordCalls[i].result <= wordCalls[j].result

C22_Witness ==
    /\ Len(wordCalls) = 2
    /\ wordCalls[1].durationMinutes < wordCalls[2].durationMinutes
    /\ wordCalls[1].result = 50
    /\ wordCalls[2].result > 50

\* floor((D - leadIn - fadeOut) * 75) for D in units: the whole number r with
\* r <= (D - 10/60 - 0.17) * 75 < r + 1.
IsFloorOfBudget(r, d) ==
    /\ r * UnitsPerMinute <= (d - 50 - 51) * 75
    /\ (d - 50 - 51) * 75 < (r + 1) * UnitsPerMinute

CredentialPresent(e) ==
    \E n \in {"ELEVENLABS_API_KEY", "NEXT_PUBLIC_ELEVENLABS_API_KEY"} :
        e[n] # "unset" /\ e[n] # ""

\* C21: createVoiceSynthesis returns the local-speech fallback synthesizer when
\* no provider credential is present in the environment and the provider-backed
\* synthesizer when one is present; every call returns one of the two, and two
\* environments that agree on the presence of a credential get the same choice.
C21_FactoryChoosesByCredential ==
    /\ \A i \in DOMAIN factoryCalls :
         factoryCalls[i].result.class =
             IF CredentialPresent(factoryCalls[i].env)
             THEN "VoiceSynthesis" ELSE "FallbackVoiceSynthesis"
    /\ \A i, j \in DOMAIN factoryCalls :
         CredentialPresent(factoryCalls[i].env) = CredentialPresent(factoryCalls[j].env)
             => factoryCalls[i].result.class = factoryCalls[j].result.class

C21_Witness ==
    /\ Len(factoryCalls) = 2
    /\ factoryCalls[1].env.ELEVENLABS_API_KEY = "unset"
    /\ factoryCalls[1].env.NEXT_PUBLIC_ELEVENLABS_API_KEY = "sk_a"
    /\ factoryCalls[2].env.ELEVENLABS_API_KEY = "sk_b"
    /\ factoryCalls[2].env.window # factoryCalls[1].env.window
    /\ factoryCalls[1].result.class = "VoiceSynthesis"

\* What the template between the markers of the file asks for: every piece
\* that is a known placeholder replaced by its value as supplied (the default
\* sentence for an empty primer or feelings list), every other piece kept.
Supplied(vs) ==
    [p \in Range(KnownPlaceholders) |->
        CASE p = "{{Wisdom_Source_Name}}" -> vs.Wisdom_Source_Name
          [] p = "{{Wisdom_Snippet}}" -> vs.Wisdom_Snippet
          [] p = "{{User_Primer}}" ->
                IF vs.User_Primer = <<>> THEN <<"No specific primer provided">>
                ELSE vs.User_Primer
          [] p = "{{User_Goal}}" -> vs.User_Goal
          [] p = "{{User_Feelings_List}}" ->
                IF vs.User_Feelings_List = <<>> THEN <<"None specified">>
                ELSE vs.User_Feelings_List
          [] p = "{{Max_Word_Count}}" -> <<"50">>]

RECURSIVE Verbatim(_, _)
Verbatim(q, vs) ==
    IF q = <<>> THEN <<>>
    ELSE (IF Head(q) \in Range(KnownPlaceholders) THEN Supplied(vs)[Head(q)]
          ELSE <<Head(q)>>) \o Verbatim(Tail(q), vs)

TemplateOfFile == SubSeq(templateFile.text, 2, Len(templateFile.text) - 1)

\* C24: generatePrompt returns the template with every occurrence of each of
\* the six known placeholders replaced by its supplied value, inserted
\* verbatim (the default sentence for an empty primer or feelings list), and
\* everything else, unknown placeholders included, untouched.
C24_PlaceholdersReplacedVerbatim ==
    prompt.is # "none" => prompt = Text(Verbatim(TemplateOfFile, variables))

\* The template file cannot be read, or a marker is missing from it.
TemplateUnavailable ==
    \/ ~templateFile.readable
    \/ startMarker \notin Range(templateFile.text)
    \/ endMarker \notin Range(templateFile.text)

\* C25: when the template file cannot be read or lacks the start or the end
\* marker, loadTemplate does not raise: generatePrompt returns a string, the
\* substitution applied to the fixed built-in template.
C25_FallbackTemplateOnLoadFailure ==
    (prompt.is # "none" /\ TemplateUnavailable)
        => /\ prompt.is = "text"
           /\ prompt.text = Substitute(getFallbackTemplate, variables)

C25_Witness ==
    /\ prompt.is # "none"
    /\ templateFile.readable
    /\ startMarker \in Range(templateFile.text)
    /\ endMarker \notin Range(templateFile.text)
    /\ "No specific primer provided" \in Range(prompt.text)

NoPlaceholderIn(q) == \A i \in DOMAIN q : q[i] \notin Range(KnownPlaceholders)

\* C26: when the prompt generatePrompt returned holds none of the six
\* placeholders, applying the substitution to it once more, with the same
\* values, yields the same text.
C26_SubstitutionIdempotent ==
    (reapplied.is # "none" /\ NoPlaceholderIn(prompt.text)) => reapplied = prompt

C26_Witness ==
    /\ reapplied.is # "none"
    /\ NoPlaceholderIn(prompt.text)
    /\ "{{User_Primer}}" \in Range(templateFile.text)
    /\ "{{Session_Title}}" \in Range(prompt.text)
    /\ variables.User_Primer = <<"$$">>

\* C28: no empty text is sent for synthesis: a segment of the script that is
\* missing or empty has been replaced by a non-empty default line before the
\* narration of the three segments is requested.
C28_NoEmptySegmentSent ==
    \A s \in Segs : sent[s] # "not sent" => sent[s] # ""

MusicPrepared == initPc = "music" /\ initPc' # "music"

\* C30 as stated: the music is prepared only after the narration has been
\* requested and measured and the total duration computed.
C30_Original ==
    [][MusicPrepared
         => /\ sent # NotSent
            /\ \A s \in Segs : measured[s] > 0
            /\ totalTime # SessionDuration * 60]_vars

\* C30: during loading the steps happen in this order: the script is
\* requested, then the background music is prepared, then (after the
\* availability probe) the narration of the three segments is requested, then
\* their durations are measured and the actual total duration is computed.
C30_LoadingOrder ==
    [][/\ (initPc' # initPc /\ initPc' = "music") => (initPc = "script" /\ script' # NoScript)
       /\ (hasMusic' # hasMusic) => (initPc = "music" /\ script # NoScript /\ sent = NotSent)
       /\ (initPc' # initPc /\ initPc' = "probe") => initPc = "music"
       /\ (sent' # sent /\ sent' # NotSent) => (initPc = "synth" /\ script # NoScript)
       /\ (initPc' # initPc /\ initPc' = "synth") => initPc = "probe"
       /\ (measured' # measured) => (initPc = "measure" /\ sent # NotSent)
       /\ (totalTime' # totalTime)
            => (initPc = "measure" /\ totalTime' = ActualSessionDuration(measured'))
       /\ (initPc' # initPc /\ initPc' = "measure") => initPc = "synth"]_vars

C30_Witness ==
    /\ initPc = "audioctx"
    /\ hasMusic
    /\ sent = FullScript
    /\ els = Segs
    /\ \A s \in Segs : measured[s] > 0
    /\ totalTime = VOICE_START_DELAY + 3 * MaxSegDur + MUSIC_FADE_AFTER_VOICE

\* The call i of generateScript fails authentication in this step: there is no
\* token, or the server answers 401.
AuthenticationFails(i) ==
    /\ i \in DOMAIN attempts
    /\ attempts[i].outcome = "pending"
    /\ attempts'[i].outcome \in {"no token", "401"}

\* C27: when a script generation of the wizard fails authentication (no token,
\* or HTTP 401) a message is shown, the wizard is at the primer step and no
\* session configuration is handed over by that step; a configuration is only
\* ever handed over after a generation that succeeded.
C27_AuthFailureReturnsToPrimer ==
    /\ [][\A i \in 1..MaxGenerations :
            AuthenticationFails(i)
                => /\ Len(alerts') = Len(alerts) + 1
                   /\ alerts'[Len(alerts')] # ""
                   /\ showAssessment' => step' = 7
                   /\ currentSession' = currentSession]_vars
    /\ [](currentSession => \E i \in DOMAIN attempts : attempts[i].outcome = "ok")

C27_Witness ==
    /\ showAssessment
    /\ step = 7
    /\ Len(attempts) = 2
    /\ attempts[1].outcome = "401"
    /\ attempts[2].outcome = "no token"
    /\ alerts = <<"Authentication failed. Please log in again.",
                  "Authentication required. Please log in.">>

\* C29: the script of a session is the one the wizard's generation produced:
\* once the session is handed over the server is not asked for a script again,
\* so the player holds no script of its own, and the text it sends for
\* synthesis is the wizard's generated script.
C29_ScriptProducedOnce ==
    currentSession
        => /\ script = NoScript
           /\ \A s \in Segs : sent[s] \in {"not sent", generatedScript}

\* C31: at most one tick interval is live at any time, whatever the sequence
\* of start, pause, resume, stop and timer completion, and elapsed time never
\* advances by more than 1 in a step.
C31_OneInterval ==
    /\ [](intervals <= 1)
    /\ [][currentTime' <= currentTime + 1]_vars

C31_Witness ==
    /\ phase = "playing"
    /\ pauses = MaxPauses
    /\ resumeConts = <<>>
    /\ startCont = "done"
    /\ intervals = 1
    /\ currentTime >= 2


\* The segment's element reached its end and was not rewound since.
HasEnded(s) == s \in els /\ ~playing[s] /\ pos[s] = dur[s]

\* C32: at most one narration segment is playing at any time, and a segment
\* that has ended is never played again within the session, a pause and resume
\* during the lead-in (resumeSession and the pending lead-in timeout both
\* starting the intro) included.
C32_OneSegmentNoReplay ==
    /\ [](Cardinality({s \in Segs : playing[s]}) <= 1)
    /\ [][\A s \in Segs : HasEnded(s) => ~playing'[s]]_vars

\* C33: the user statistics are updated at most once per session:
\* updateUserStats is called exactly once, by the step in which the session
\* first enters completed, and never again, whatever the interleaving of the
\* stop button, the completing tick and the suspended async steps.
C33_StatsUpdatedOnce ==
    /\ [](statsCalls <= 1)
    /\ [][statsCalls' # statsCalls
            => (phase # "completed" /\ phase' = "completed"
                /\ statsCalls' = statsCalls + 1)]_vars
    /\ [][(phase # "completed" /\ phase' = "completed")
            => statsCalls' = statsCalls + 1]_vars

\* C34: validateTemplate returns isValid = false with an error message when the
\* template file does not exist, cannot be read or lacks a prompt marker, and
\* isValid = true only when the file was loaded.
C34_ValidateReportsLoadFailure ==
    validation.is = "done"
        => /\ validation.isValid = ~TemplateUnavailable
           /\ (~validation.isValid => validation.error # "")

\* The tick that brings elapsed time to the total completes the session.
CompletedByTick ==
    phase # "completed" /\ phase' = "completed" /\ TickFired /\ currentTime' # currentTime

\* C35: every session with narration audio that reaches completed through the
\* tick timer has played intro, main and closing completely, each exactly once
\* (at the completing tick every segment stands at its end, and a segment at
\* its end was not started again before), for every sequence of pause and
\* resume, a pause exactly at a segment boundary included.
C35_AllSegmentsPlayedOnce ==
    /\ [][(CompletedByTick /\ els = Segs)
            => \A s \in Segs : ~playing[s] /\ pos[s] = dur[s]]_vars
    /\ [][\A s \in els :
            (pos[s] = dur[s] /\ phase # "completed" /\ phase' # "completed")
                => pos'[s] = dur[s]]_vars

\* The load is past the narration steps and did not produce the three elements.
NarrationFailed == initPc \in {"audioctx", "timer", "done"} /\ els # Segs

\* C36: when the narration could not be produced (script, probe or synthesis
\* failure) the total stays at requestedMinutes * 60 and no narration element
\* exists, and a session that is started still runs its tick timer: it
\* completes, by the timer exactly when elapsed time reaches that total.
C36_NoNarrationStillCompletes ==
    /\ [](NarrationFailed
            => /\ els = {}
               /\ totalTime = SessionDuration * 60
               /\ \A s \in Segs : ~playing[s])
    /\ [][(els = {} /\ CompletedByTick)
            => (currentTime + 1 = totalTime /\ currentTime' = totalTime)]_vars
    /\ ((phase = "playing" /\ els = {}) ~> (phase = "completed"))

C36_Witness ==
    /\ phase = "completed"
    /\ els = {}
    /\ totalTime = SessionDuration * 60
    /\ currentTime = totalTime
    /\ pauses = 1
    /\ statsCalls = 1

\* The fade window has begun and the session is not completed.
InFadeWindow ==
    /\ hasMusic
    /\ phase \in {"playing", "paused"}
    /\ currentTime > 0
    /\ totalTime - currentTime <= FadeWindow

\* C37: once the fade window has begun (remaining <= 5) and the user does not
\* change the music volume setting, the volume of the music element never
\* rises again before the session completes, a pause and resume inside the
\* fade window included.
C37_FadeNeverRises ==
    [][(InFadeWindow /\ volumes'.music = volumes.music) => musicVol' <= musicVol]_vars

\* C38: in the wizard onComplete is invoked only from step 10, and step 10 is
\* reached only after a goal was selected, the three survey questions
\* (currentState, experience, environment) were answered and a script
\* generation completed successfully, for every sequence of continue and back.
C38_CompleteOnlyAfterAnswers ==
    /\ [][currentSession' # currentSession => (step = VoiceStep /\ showAssessment)]_vars
    /\ [](step = VoiceStep
            => /\ selectedGoal
               /\ assessment = {"currentState", "experience", "environment"}
               /\ \E i \in DOMAIN attempts : attempts[i].outcome = "ok")

C38_Witness ==
    /\ currentSession
    /\ step = VoiceStep
    /\ Len(attempts) = 2
    /\ attempts[1].outcome = "401"
    /\ attempts[2].outcome = "ok"

\* A generation resolves in this step: its review timeout fires, or its catch
\* shows the alert.
ReviewTimerFires == reviewTimers' < reviewTimers
GenerationFails(i) ==
    /\ i \in DOMAIN attempts
    /\ attempts[i].pc # "done"
    /\ attempts'[i].pc = "done"
    /\ attempts'[i].outcome # "ok"

\* C39: a script generation moves the step (to 9 on success, to 7 on failure)
\* only while the wizard is on the generating step 8 and shows that
\* generation: one that resolves after the user pressed back, or while a
\* generation started later is displayed, leaves the step as it is.
C39_GenerationMovesOnlyFromGenerating ==
    [][/\ ReviewTimerFires
            => \/ step' = step
               \/ step = GeneratingStep /\ attempts[Len(attempts)].outcome = "ok"
       /\ \A i \in 1..MaxGenerations :
            GenerationFails(i)
                => \/ step' = step
                   \/ step = GeneratingStep /\ i = Len(attempts)]_vars

\* The lead-in timeout or an onended callback runs in this step and reads
\* phaseRef.current.
MirrorRead ==
    \/ leadIn = 0 /\ leadIn' = NoTimeout
    \/ \E s \in Segs : EndedDelivered(s)

\* C40: whenever the lead-in timeout or an ended callback reads the phase
\* mirror it agrees with the phase: the callback observes the phase set by the
\* most recent start, pause, resume or stop, never the phase before it.
C40_MirrorAgreesWhenRead ==
    [][MirrorRead => phaseRef = phase]_vars


====
